---------------------------- MODULE Spec2Model ----------------------------
(***************************************************************************)
(* dependency_mapper: the command line, file discovery, the check of the   *)
(* node command, file analysis in a pool of workers, aggregation of the    *)
(* per-file facts, assembly of the networkx DiGraph, topological layering  *)
(* and the two serializers.                                                *)
(*                                                                         *)
(* A string is a sequence of lexical tokens: "pkg/mod.py__mod.Foo" is      *)
(* <<"pkg/mod.py", "__", "mod", ".", "Foo">>.  The separators "__", "."    *)
(* and ":" are tokens of their own, so that str.split keeps its meaning.   *)
(* A Python dict with string keys is a function on its set of keys; the    *)
(* empty dict is << >>.                                                    *)
(***************************************************************************)
EXTENDS Integers, Sequences, FiniteSets, TLC

(***************************************************************************)
(* Bounds of the model.                                                    *)
(***************************************************************************)
\* longest list of node facts / edge facts handed to build (SpecGraph)
MaxNodeFacts == 2
MaxEdgeFacts == 2
\* longest list of node facts / edge facts handed to build (SpecLayers)
MaxLayerNodeFacts == 1
MaxLayerEdgeFacts == 3
\* longest list of files handed to run_parallel_parsing, and the pool's size
MaxFiles == 3
MaxWorkers == 2

(***************************************************************************)
(* Sequences and dicts.                                                    *)
(***************************************************************************)
Range(s) == {s[i] : i \in 1..Len(s)}

SeqsUpTo(S, n) == UNION {[1..k -> S] : k \in 0..n}

Last(s) == s[Len(s)]

Front(s) == SubSeq(s, 1, Len(s) - 1)

Contains(s, x) == \E i \in 1..Len(s) : s[i] = x

EmptyDict == << >>

\* d.get(k, default)
DictGet(d, k, default) == IF k \in DOMAIN d THEN d[k] ELSE default

\* del d[k]
DictDel(d, k) == [x \in (DOMAIN d) \ {k} |-> d[x]]

\* {**d, k: v}
DictSet(d, k, v) == [x \in (DOMAIN d) \cup {k} |-> IF x = k THEN v ELSE d[x]]

\* a dict.update that keeps the values already present (setdefault)
DictUpdateKeepOld(d, new) ==
    [x \in (DOMAIN d) \cup (DOMAIN new) |-> IF x \in DOMAIN d THEN d[x] ELSE new[x]]

\* d.update(new): the keys of new are overwritten, the other keys are kept
DictUpdate(d, new) ==
    [x \in (DOMAIN d) \cup (DOMAIN new) |-> IF x \in DOMAIN new THEN new[x] ELSE d[x]]

(***************************************************************************)
(* str.split(sep)[-1]: the tokens after the last token sep.                *)
(***************************************************************************)
LastSepIndex(s, seps) ==
    LET idx == {i \in 1..Len(s) : s[i] \in seps}
    IN IF idx = {} THEN 0 ELSE CHOOSE i \in idx : \A j \in idx : j <= i

AfterLast(s, seps) == SubSeq(s, LastSepIndex(s, seps) + 1, Len(s))

(***************************************************************************)
(* models.py: Node and Edge, and pydantic's model_dump(mode='json').       *)
(***************************************************************************)
Metadata(path, line) ==
    [file_path |-> path, start_line |-> line, end_line |-> line,
     contains_dynamic_code |-> FALSE]

Node(id, type, name, line) ==
    [id |-> id, type |-> type, name |-> name, metadata |-> Metadata(id[1], line)]

Edge(source, target, type) == [source |-> source, target |-> target, type |-> type]

\* Node.model_dump(mode='json'): the four fields, as a dict
ModelDump(node) ==
    [id |-> node.id, type |-> node.type, name |-> node.name, metadata |-> node.metadata]

(***************************************************************************)
(* networkx.DiGraph.  order is the insertion order of the nodes (the _node *)
(* dict), attrs the node attribute dicts, succ the successors of each node *)
(* in insertion order (the _succ dict), edata the edge attribute dicts.    *)
(***************************************************************************)
EmptyGraph == [order |-> << >>, attrs |-> << >>, succ |-> << >>, edata |-> << >>]

Nodes(G) == Range(G.order)

HasEdge(G, u, v) == u \in Nodes(G) /\ Contains(G.succ[u], v)

Edges(G) == {e \in Nodes(G) \X Nodes(G) : HasEdge(G, e[1], e[2])}

\* G.edges in iteration order: node by node, successors in insertion order
RECURSIVE EdgeList(_, _)
EdgeList(G, i) ==
    IF i > Len(G.order) THEN << >>
    ELSE LET u == G.order[i]
         IN [j \in 1..Len(G.succ[u]) |-> <<u, G.succ[u][j]>>] \o EdgeList(G, i + 1)

\* the node n enters _node, _succ and _pred with no attribute
NewNode(G, n) ==
    IF n \in Nodes(G) THEN G
    ELSE [G EXCEPT !.order = Append(@, n),
                   !.attrs = DictSet(@, n, EmptyDict),
                   !.succ = DictSet(@, n, << >>)]

\* an add_node that keeps the attributes of a node already present
AddNodeKeepFirst(G, n, attr) ==
    LET H == NewNode(G, n)
    IN [H EXCEPT !.attrs[n] = DictUpdateKeepOld(@, attr)]

\* DiGraph.add_node(n, **attr)
AddNode(G, n, attr) ==
    LET H == NewNode(G, n)
    IN [H EXCEPT !.attrs[n] = DictUpdate(@, attr)]

\* DiGraph.add_edge(u, v, **attr): u then v become nodes if they are not, and
\* the edge's attribute dict is updated (one edge per ordered pair)
AddEdge(G, u, v, attr) ==
    LET H == NewNode(NewNode(G, u), v)
        old == DictGet(H.edata, <<u, v>>, EmptyDict)
    IN [H EXCEPT !.succ[u] = IF Contains(@, v) THEN @ ELSE Append(@, v),
                 !.edata = DictSet(@, <<u, v>>, DictUpdate(old, attr))]

\* DiGraph.in_degree(n): the number of predecessors
InDegree(G, n) == Cardinality({u \in Nodes(G) : HasEdge(G, u, n)})

(***************************************************************************)
(* graph_builder.py: GraphBuilder.build.                                   *)
(***************************************************************************)
\* a loop that leaves a node already declared as it is
RECURSIVE AddNodesKeepFirst(_, _, _)
AddNodesKeepFirst(G, nodes, i) ==
    IF i > Len(nodes) THEN G
    ELSE AddNodesKeepFirst(AddNodeKeepFirst(G, nodes[i].id, ModelDump(nodes[i])),
                           nodes, i + 1)

\* for node in nodes: self.graph.add_node(node.id, **node.model_dump(mode='json'))
RECURSIVE AddNodes(_, _, _)
AddNodes(G, nodes, i) ==
    IF i > Len(nodes) THEN G
    ELSE AddNodes(AddNode(G, nodes[i].id, ModelDump(nodes[i])), nodes, i + 1)

\* a loop that rejects an edge with an endpoint that is no node yet
RECURSIVE AddEdgesDeclaredOnly(_, _, _)
AddEdgesDeclaredOnly(G, edges, i) ==
    IF i > Len(edges) THEN G
    ELSE IF edges[i].source \in Nodes(G) /\ edges[i].target \in Nodes(G)
         THEN AddEdgesDeclaredOnly(AddEdge(G, edges[i].source, edges[i].target,
                                           [type |-> edges[i].type]), edges, i + 1)
         ELSE AddEdgesDeclaredOnly(G, edges, i + 1)

\* for edge in edges: self.graph.add_edge(edge.source, edge.target, type=...)
RECURSIVE AddEdges(_, _, _)
AddEdges(G, edges, i) ==
    IF i > Len(edges) THEN G
    ELSE AddEdges(AddEdge(G, edges[i].source, edges[i].target, [type |-> edges[i].type]),
                  edges, i + 1)

Build(nodes, edges) == AddEdges(AddNodes(EmptyGraph, nodes, 1), edges, 1)


(***************************************************************************)
(* networkx.topological_generations, as list() consumes it: the layers, or *)
(* the exception the generator ends with.                                  *)
(***************************************************************************)
\* the successors met while a generation is processed, node by node
RECURSIVE ChildrenOf(_, _, _)
ChildrenOf(G, generation, i) ==
    IF i > Len(generation) THEN << >>
    ELSE G.succ[generation[i]] \o ChildrenOf(G, generation, i + 1)

\* indegree_map[child] -= 1 for each child in turn; a child that reaches 0
\* joins the next generation and leaves the map
RECURSIVE ReleaseChildren(_, _, _, _)
ReleaseChildren(children, i, indegree_map, zero_indegree) ==
    IF i > Len(children)
    THEN [err |-> FALSE, indegree_map |-> indegree_map, zero_indegree |-> zero_indegree]
    ELSE LET child == children[i]
         IN IF child \notin DOMAIN indegree_map
            THEN [err |-> TRUE, indegree_map |-> indegree_map,
                  zero_indegree |-> zero_indegree]
            ELSE LET d == indegree_map[child] - 1
                 IN IF d = 0
                    THEN ReleaseChildren(children, i + 1, DictDel(indegree_map, child),
                                         Append(zero_indegree, child))
                    ELSE ReleaseChildren(children, i + 1,
                                         [indegree_map EXCEPT ![child] = d],
                                         zero_indegree)

RECURSIVE Generations(_, _, _, _)
Generations(G, zero_indegree, indegree_map, yielded) ==
    IF zero_indegree = << >>
    THEN IF DOMAIN indegree_map # {}
         THEN [kind |-> "NetworkXUnfeasible", layers |-> << >>]
         ELSE [kind |-> "ok", layers |-> yielded]
    ELSE LET r == ReleaseChildren(ChildrenOf(G, zero_indegree, 1), 1, indegree_map, << >>)
         IN IF r.err
            THEN [kind |-> "RuntimeError", layers |-> << >>]
            ELSE Generations(G, r.zero_indegree, r.indegree_map,
                             Append(yielded, zero_indegree))

TopologicalGenerations(G) ==
    LET indegree_map == [v \in {n \in Nodes(G) : InDegree(G, n) > 0} |-> InDegree(G, v)]
        zero_indegree == SelectSeq(G.order, LAMBDA n : InDegree(G, n) = 0)
    IN Generations(G, zero_indegree, indegree_map, << >>)

(***************************************************************************)
(* networkx.edge_dfs(G, source) with no orientation: the edges in the      *)
(* order of a depth-first traversal that follows every edge once.          *)
(***************************************************************************)
RECURSIVE EdgeDfsLoop(_, _, _, _, _)
EdgeDfsLoop(G, stack, next, visited_edges, yielded) ==
    IF stack = << >> THEN yielded
    ELSE LET current_node == Last(stack)
             nxt == IF current_node \in DOMAIN next THEN next
                    ELSE DictSet(next, current_node, 1)
             k == nxt[current_node]
         IN IF k > Len(G.succ[current_node])
            THEN EdgeDfsLoop(G, Front(stack), nxt, visited_edges, yielded)
            ELSE LET edge == <<current_node, G.succ[current_node][k]>>
                     adv == [nxt EXCEPT ![current_node] = k + 1]
                 IN IF edge \in visited_edges
                    THEN EdgeDfsLoop(G, stack, adv, visited_edges, yielded)
                    ELSE EdgeDfsLoop(G, Append(stack, edge[2]), adv,
                                     visited_edges \cup {edge}, Append(yielded, edge))

EdgeDfs(G, start_node) == EdgeDfsLoop(G, <<start_node>>, << >>, {}, << >>)

(***************************************************************************)
(* networkx.find_cycle(G) with no source and no orientation.               *)
(***************************************************************************)
\* the backtracking loop: pop the active path until its last head is tail
RECURSIVE PopToTail(_, _, _)
PopToTail(edges, active_nodes, tail) ==
    IF edges = << >>
    THEN [err |-> FALSE, edges |-> << >>, active_nodes |-> {tail}]
    ELSE LET popped_head == Last(edges)[2]
             rest == Front(edges)
         IN IF popped_head \notin active_nodes
            THEN [err |-> TRUE, edges |-> rest, active_nodes |-> active_nodes]
            ELSE IF rest # << >> /\ Last(rest)[2] = tail
                 THEN [err |-> FALSE, edges |-> rest,
                       active_nodes |-> active_nodes \ {popped_head}]
                 ELSE PopToTail(rest, active_nodes \ {popped_head}, tail)

\* the scan of the traversal from one start node; previous_head is << >> for
\* None and <<n>> for the node n
RECURSIVE ScanEdges(_, _, _, _, _, _, _)
ScanEdges(dfs, k, edges, seen, active_nodes, previous_head, explored) ==
    IF k > Len(dfs)
    THEN [kind |-> "none", cycle |-> << >>, final_node |-> << >>, seen |-> seen]
    ELSE LET tail == dfs[k][1]
             head == dfs[k][2]
         IN IF head \in explored
            THEN ScanEdges(dfs, k + 1, edges, seen, active_nodes, previous_head, explored)
            ELSE LET p == IF previous_head # << >> /\ tail # previous_head[1]
                          THEN PopToTail(edges, active_nodes, tail)
                          ELSE [err |-> FALSE, edges |-> edges,
                                active_nodes |-> active_nodes]
                     path == Append(p.edges, dfs[k])
                 IN IF p.err
                    THEN [kind |-> "KeyError", cycle |-> << >>, final_node |-> << >>,
                          seen |-> seen]
                    ELSE IF head \in p.active_nodes
                         THEN [kind |-> "cycle", cycle |-> path, final_node |-> head,
                               seen |-> seen]
                         ELSE ScanEdges(dfs, k + 1, path, seen \cup {head},
                                        p.active_nodes \cup {head}, <<head>>, explored)

\* the edges from the first one that leaves final_node
TrimCycle(cycle, final_node) ==
    LET idx == {i \in 1..Len(cycle) : cycle[i][1] = final_node}
        first == IF idx = {} THEN Len(cycle)
                 ELSE CHOOSE i \in idx : \A j \in idx : i <= j
    IN SubSeq(cycle, first, Len(cycle))

RECURSIVE FindCycleFrom(_, _, _)
FindCycleFrom(G, i, explored) ==
    IF i > Len(G.order)
    THEN [kind |-> "NetworkXNoCycle", cycle |-> << >>]
    ELSE LET start_node == G.order[i]
         IN IF start_node \in explored
            THEN FindCycleFrom(G, i + 1, explored)
            ELSE LET r == ScanEdges(EdgeDfs(G, start_node), 1, << >>, {start_node},
                                    {start_node}, << >>, explored)
                 IN CASE r.kind = "cycle" ->
                            [kind |-> "cycle", cycle |-> TrimCycle(r.cycle, r.final_node)]
                      [] r.kind = "KeyError" -> [kind |-> "KeyError", cycle |-> << >>]
                      [] OTHER -> FindCycleFrom(G, i + 1, explored \cup r.seen)

FindCycle(G) == FindCycleFrom(G, 1, {})

(***************************************************************************)
(* api.py: get_analysis_layers.  The result is the list of layers, or the  *)
(* exception raised; cycle_path lists the node ids of the message of       *)
(* CircularDependencyError in the order they are joined with " -> ".       *)
(***************************************************************************)
NoResult == [kind |-> "none", layers |-> << >>, cycle_path |-> << >>]

\* the graph with every edge turned round
ReverseGraph(G) ==
    [G EXCEPT !.succ = [n \in Nodes(G) |-> SelectSeq(G.order, LAMBDA u : HasEdge(G, u, n))],
              !.edata = [e \in {<<x[2], x[1]>> : x \in Edges(G)} |-> G.edata[<<e[2], e[1]>>]]]

\* a layering that follows the edges from target to source
GetAnalysisLayersReversed(G) ==
    LET t == TopologicalGenerations(ReverseGraph(G))
    IN IF t.kind = "ok"
       THEN [kind |-> "layers", layers |-> t.layers, cycle_path |-> << >>]
       ELSE [kind |-> "CircularDependencyError", layers |-> << >>, cycle_path |-> << >>]

\* a message that lists the cycle's nodes and does not return to the first
GetAnalysisLayersOpenPath(G) ==
    LET t == TopologicalGenerations(G)
        c == FindCycle(G)
    IN IF t.kind = "ok"
       THEN [kind |-> "layers", layers |-> t.layers, cycle_path |-> << >>]
       ELSE [kind |-> "CircularDependencyError", layers |-> << >>,
             cycle_path |-> [i \in 1..Len(c.cycle) |-> c.cycle[i][1]]]

GetAnalysisLayers(G) ==
    LET t == TopologicalGenerations(G)
    IN CASE t.kind = "ok" ->
                [kind |-> "layers", layers |-> t.layers, cycle_path |-> << >>]
         [] t.kind = "NetworkXUnfeasible" ->
                LET c == FindCycle(G)
                IN IF c.kind = "cycle"
                   THEN [kind |-> "CircularDependencyError", layers |-> << >>,
                         cycle_path |-> [i \in 1..Len(c.cycle) |-> c.cycle[i][1]]
                                            \o <<c.cycle[1][1]>>]
                   ELSE [kind |-> c.kind, layers |-> << >>, cycle_path |-> << >>]
         [] OTHER -> [kind |-> t.kind, layers |-> << >>, cycle_path |-> << >>]

(***************************************************************************)
(* serializers.py: JsonSerializer, with networkx's node_link_data and, for *)
(* the way back, node_link_graph.                                          *)
(***************************************************************************)
\* a node_link_data whose links carry the endpoints only
NodeLinkDataBareLinks(G) ==
    LET es == EdgeList(G, 1)
    IN [directed |-> TRUE, multigraph |-> FALSE, graph |-> EmptyDict,
        nodes |-> [i \in 1..Len(G.order) |->
                      DictSet(G.attrs[G.order[i]], "id", G.order[i])],
        links |-> [i \in 1..Len(es) |-> [source |-> es[i][1], target |-> es[i][2]]]]

\* node_link_data(G, edges="links"): {**G.nodes[n], "id": n} per node and
\* {**d, "source": u, "target": v} per edge
NodeLinkData(G) ==
    LET es == EdgeList(G, 1)
    IN [directed |-> TRUE, multigraph |-> FALSE, graph |-> EmptyDict,
        nodes |-> [i \in 1..Len(G.order) |->
                      DictSet(G.attrs[G.order[i]], "id", G.order[i])],
        links |-> [i \in 1..Len(es) |->
                      DictSet(DictSet(G.edata[es[i]], "source", es[i][1]),
                              "target", es[i][2])]]

\* json.dumps and json.loads: the document's values are str, int, bool, dict
\* and list, which the text form holds as they are
JsonDumps(data) == [text |-> data]

JsonLoads(doc) == doc.text

\* a serializer whose links lost their attributes
JsonSerializeBareLinks(G) == JsonDumps(NodeLinkDataBareLinks(G))

\* JsonSerializer.serialize
JsonSerialize(G) == JsonDumps(NodeLinkData(G))

\* node_link_graph(data, edges="links"): the "id" of a node entry is its key
\* and the other entries are its attributes; likewise "source" and "target"
RECURSIVE LoadNodes(_, _, _)
LoadNodes(G, nodes, i) ==
    IF i > Len(nodes) THEN G
    ELSE LET d == nodes[i]
             node == IF "id" \in DOMAIN d THEN d["id"] ELSE <<i - 1>>
         IN LoadNodes(AddNode(G, node, DictDel(d, "id")), nodes, i + 1)

RECURSIVE LoadLinks(_, _, _)
LoadLinks(G, links, i) ==
    IF i > Len(links) THEN G
    ELSE LET d == links[i]
         IN LoadLinks(AddEdge(G, d["source"], d["target"],
                              DictDel(DictDel(d, "source"), "target")),
                      links, i + 1)

NodeLinkGraph(data) == LoadLinks(LoadNodes(EmptyGraph, data.nodes, 1), data.links, 1)

(***************************************************************************)
(* serializers.py: DotSerializer.  The text is the list of node entries    *)
(* and the list of edge entries that to_pydot builds.                      *)
(***************************************************************************)
\* the loop over viz_graph.nodes(data=True)
SimpleLabels(viz_graph) ==
    [viz_graph EXCEPT !.attrs =
        [node \in Nodes(viz_graph) |->
            LET data == viz_graph.attrs[node]
                label == AfterLast(DictGet(data, "name", node), {":"})
            IN DictDel(DictSet(data, "label", label), "name")]]

\* networkx.drawing.nx_pydot.to_pydot
ToPydot(N) ==
    LET es == EdgeList(N, 1)
    IN [nodes |-> [i \in 1..Len(N.order) |->
                      [name |-> N.order[i], attrs |-> N.attrs[N.order[i]]]],
        edges |-> [i \in 1..Len(es) |->
                      [source |-> es[i][1], target |-> es[i][2],
                       attrs |-> N.edata[es[i]]]]]

\* DotSerializer.serialize: text is the DOT output, graph the caller's graph
\* after the call (the labels are set on graph.copy(), whose attribute dicts
\* are copies)
DotSerialize(G) ==
    LET viz_graph == G
    IN [text |-> ToPydot(SimpleLabels(viz_graph)), graph |-> G]

(***************************************************************************)
(* orchestrator.py and the parsers: one worker call.  What an analyzer     *)
(* meets for a file is the file's outcome; a call returns a batch or       *)
(* raises.                                                                 *)
(***************************************************************************)
FilePool == {"a.py", "b.py", "c.ts", "d.md"}

\* Path.suffix
Suffix ==
    [f \in FilePool |->
        CASE f = "a.py" -> ".py" [] f = "b.py" -> ".py" [] f = "c.ts" -> ".ts"
          [] OTHER -> ".md"]

\* PARSER_MAPPING.get(suffix); "None" for a suffix with no parser
ParserMapping(suffix) ==
    CASE suffix = ".py" -> "PythonParser"
      [] suffix \in {".ts", ".tsx", ".js", ".jsx"} -> "TypeScriptParser"
      [] OTHER -> "None"

\* the ways an analysis ends: astroid raises; no tsconfig above the file; the
\* node process is missing or exits non-zero; its output is not JSON, or is
\* JSON that is no list of Node and Edge
PythonOutcomes == {"ok", "AstroidError"}

TypeScriptOutcomes ==
    {"ok", "no_tsconfig", "FileNotFoundError", "CalledProcessError",
     "JSONDecodeError", "ValidationError"}

OutcomesOf(f) ==
    CASE ParserMapping(Suffix[f]) = "PythonParser" -> PythonOutcomes
      [] ParserMapping(Suffix[f]) = "TypeScriptParser" -> TypeScriptOutcomes
      [] OTHER -> {"ok"}

\* the facts a successful analysis of each file yields.  The batch of c.ts is
\* what the node script printed, which the parent takes as it is: it declares
\* an id that the batch of a.py declares, and joins a pair of ids that the
\* batch of b.py joins with another type
FileId(f) == <<f>>

SymbolId(f, mod, name) == <<f, "__", mod, ".", name>>

FileBatch(f) ==
    CASE f = "a.py" ->
           [nodes |-> <<Node(FileId("a.py"), "file", <<"a">>, 0),
                        Node(SymbolId("a.py", "a", "Foo"), "class", <<"Foo">>, 1)>>,
            edges |-> <<Edge(FileId("a.py"), SymbolId("a.py", "a", "Foo"), "contains"),
                        Edge(FileId("a.py"), FileId("b.py"), "imports")>>]
      [] f = "b.py" ->
           [nodes |-> <<Node(FileId("b.py"), "file", <<"b">>, 0)>>,
            edges |-> <<Edge(FileId("b.py"), FileId("a.py"), "imports"),
                        Edge(FileId("b.py"), SymbolId("a.py", "a", "Foo"), "calls")>>]
      [] f = "c.ts" ->
           [nodes |-> <<Node(FileId("c.ts"), "file", <<"c">>, 0),
                        Node(SymbolId("a.py", "a", "Foo"), "interface", <<"Foo">>, 3)>>,
            edges |-> <<Edge(FileId("c.ts"), FileId("c.ts"), "imports"),
                        Edge(FileId("b.py"), SymbolId("a.py", "a", "Foo"), "uses-type")>>]
      [] OTHER -> [nodes |-> << >>, edges |-> << >>]

Returned(nodes, edges) == [raised |-> FALSE, exc |-> "", nodes |-> nodes, edges |-> edges]

Raised(exc) == [raised |-> TRUE, exc |-> exc, nodes |-> << >>, edges |-> << >>]

\* a parse whose except clause is missing
PythonParserParseNoExcept(f, oc) ==
    IF oc = "ok" THEN Returned(FileBatch(f).nodes, FileBatch(f).edges) ELSE Raised(oc)

\* PythonParser.parse: the whole body is under try / except Exception
PythonParserParse(f, oc) ==
    LET body == IF oc = "ok" THEN Returned(FileBatch(f).nodes, FileBatch(f).edges)
                ELSE Raised(oc)
    IN IF body.raised THEN Returned(<< >>, << >>) ELSE body

\* TypeScriptParser.parse: no tsconfig returns at once; the rest is under try
\* with except CalledProcessError, JSONDecodeError and Exception
TypeScriptParserParse(f, oc) ==
    IF oc = "no_tsconfig" THEN Returned(<< >>, << >>)
    ELSE LET body == IF oc = "ok" THEN Returned(FileBatch(f).nodes, FileBatch(f).edges)
                     ELSE Raised(oc)
         IN IF body.raised THEN Returned(<< >>, << >>) ELSE body

\* _parse_file_worker
ParseFileWorker(f, oc) ==
    LET parser_class == ParserMapping(Suffix[f])
    IN CASE parser_class = "None" -> Returned(<< >>, << >>)
         [] parser_class = "PythonParser" -> PythonParserParse(f, oc)
         [] OTHER -> TypeScriptParserParse(f, oc)

(***************************************************************************)
(* walkers.py: file discovery.  A file of FilePool lies at a fixed place   *)
(* under the project root; tree is the set of the files that exist.  What  *)
(* is known of a name's characters is what fnmatch reads: whether it       *)
(* begins with a dot, whether it ends in ".egg-info".                      *)
(***************************************************************************)
DEFAULT_IGNORE_PATTERNS ==
    <<".*", "__pycache__", "build", "dist", "*.egg-info", "venv", ".venv", "node_modules">>

SUPPORTED_EXTENSIONS == {".py", ".js", ".ts", ".jsx", ".tsx"}

\* path.relative_to(root_path).parts
RelativeParts(f) == IF f = "b.py" THEN <<"build", "b.py">> ELSE <<f>>

\* the names that begin with a dot, and those that end in ".egg-info"
DotNames == {".git", ".venv"}

EggInfoNames == {"pkg.egg-info"}

\* fnmatch.fnmatch(name, pattern) for a name with no "/"
FnMatch(name, pattern) ==
    CASE pattern = ".*" -> name \in DotNames
      [] pattern = "*.egg-info" -> name \in EggInfoNames
      [] OTHER -> name = pattern

\* fnmatch.fnmatch(relative_path, pattern): "*" also matches "/", a pattern
\* with no "*" matches no path of several parts
PathMatch(parts, pattern) ==
    IF Len(parts) = 1 THEN FnMatch(parts[1], pattern)
    ELSE CASE pattern = ".*" -> parts[1] \in DotNames
           [] pattern = "*.egg-info" -> Last(parts) \in EggInfoNames
           [] OTHER -> FALSE

\* FileSystemWalker._is_ignored
IsIgnored(f, ignore_patterns) ==
    LET relative_path == RelativeParts(f)
    IN \E k \in 1..Len(ignore_patterns) :
          \/ PathMatch(relative_path, ignore_patterns[k])
          \/ FnMatch(Last(relative_path), ignore_patterns[k])
          \/ \E j \in 1..Len(relative_path) :
                FnMatch(relative_path[j], ignore_patterns[k])

\* the walks FileSystemWalker.walk can yield: the files rglob finds for the
\* supported extensions, but the ignored ones, each once; the order is that
\* of a set's iteration and of the directory listings
FileSystemWalkerWalk(tree) ==
    LET found == {f \in tree : Suffix[f] \in SUPPORTED_EXTENSIONS
                               /\ ~IsIgnored(f, DEFAULT_IGNORE_PATTERNS)}
    IN {s \in [1..Cardinality(found) -> found] :
           \A i, j \in 1..Len(s) : i # j => s[i] # s[j]}

\* how subprocess.run of git ls-files ends
GitOutcomes == {"ok", "CalledProcessError", "FileNotFoundError", "PermissionError"}

\* a walk that falls back on every error of the query
GitFileWalkerWalkCatchAll(git, ls_files, tree) ==
    IF git = "ok"
    THEN [raised |-> "", walks |-> {SelectSeq(ls_files,
                                      LAMBDA f : Suffix[f] \in SUPPORTED_EXTENSIONS)}]
    ELSE [raised |-> "", walks |-> FileSystemWalkerWalk(tree)]

\* GitFileWalker.walk, as list() consumes it: the exception that leaves it,
\* or the walks it can yield
GitFileWalkerWalk(git, ls_files, tree) ==
    CASE git = "ok" ->
           [raised |-> "", walks |-> {SelectSeq(ls_files,
                                        LAMBDA f : Suffix[f] \in SUPPORTED_EXTENSIONS)}]
      [] git \in {"CalledProcessError", "FileNotFoundError"} ->
           [raised |-> "", walks |-> FileSystemWalkerWalk(tree)]
      [] OTHER -> [raised |-> git, walks |-> {}]

\* get_file_walker(root_path).walk()
Walk(e) ==
    IF e.git_dir THEN GitFileWalkerWalk(e.git, e.ls_files, e.tree)
    ELSE [raised |-> "", walks |-> FileSystemWalkerWalk(e.tree)]

(***************************************************************************)
(* api.py and utils.py: the check of the node command.                     *)
(***************************************************************************)
TS_JS_EXTENSIONS == {".ts", ".js", ".tsx", ".jsx"}

\* check_command_installed(command): the exception raised, "" for none
CheckCommandInstalled(which) == IF which THEN "" ELSE "RuntimeError"

\* a check made whatever the files are
NodeCheckAlways(paths, node) == CheckCommandInstalled(node)

\* a check that is never made
NodeCheckNever(paths, node) == ""

\* generate_graph: the check is made if a path has a TS/JS suffix
NodeCheck(paths, node) ==
    IF \E i \in 1..Len(paths) : Suffix[paths[i]] \in TS_JS_EXTENSIONS
    THEN CheckCommandInstalled(node)
    ELSE ""

(***************************************************************************)
(* cli.py: the command line, the process's exit and the files it writes.   *)
(***************************************************************************)
\* what parse_args gives: root_path is what lies at the path given
ArgsPool ==
    [root_path : {"dir", "file", "missing"}, output_file : BOOLEAN,
     format : {"json", "dot"}, show_layers : BOOLEAN]

DefaultArgs ==
    [root_path |-> "dir", output_file |-> FALSE, format |-> "json", show_layers |-> FALSE]

\* the process runs; it has ended with a status: 0 on return, 1 on sys.exit(1)
\* and on an exception nothing catches, 2 on parser.error
Running == [done |-> FALSE, status |-> 0, error |-> ""]

Exited(status, error) == [done |-> TRUE, status |-> status, error |-> error]

\* the usage error of the arguments, "" for none
UsageError(a) ==
    CASE a.show_layers /\ a.output_file -> "show_layers_with_output"
      [] a.root_path = "missing" -> "does_not_exist"
      [] a.root_path = "file" -> "not_a_directory"
      [] OTHER -> ""

\* the output files
OutputFile == "output_file"

JsonPath == "output/dependency_graph.json"

DotPath == "output/dependency_graph.dot"

(***************************************************************************)
(* State.                                                                  *)
(***************************************************************************)
VARIABLES
    file_paths,   \* run_parallel_parsing: the files to parse, in task order
    outcome,      \* what the analyzer of each file meets
    next_task,    \* index in file_paths of the next file to hand to a worker
    running,      \* the files in a worker
    outqueue,     \* the worker results not yet taken by the parent
    collected,    \* the files whose result the parent has taken
    all_nodes,    \* run_parallel_parsing: all_nodes
    all_edges,    \* run_parallel_parsing: all_edges
    pc,           \* where the parent is
    graph,        \* GraphBuilder.graph
    layers,       \* what get_analysis_layers returned or raised
    json_out,     \* what JsonSerializer.serialize returned
    dot_out,      \* what DotSerializer.serialize returned
    handed,       \* how many times each file was handed to a worker
    args,         \* main: what parse_args returned
    env,          \* what the process finds: the tree under the root, git, node, pydot
    proc,         \* whether the process has ended, and its exit status
    written,      \* the output files written
    warnings      \* the warnings printed

vars == <<file_paths, outcome, next_task, running, outqueue, collected, all_nodes,
          all_edges, pc, graph, layers, json_out, dot_out, handed, args, env, proc,
          written, warnings>>

orch_vars == <<file_paths, outcome, next_task, running, outqueue, collected, handed>>

cli_vars == <<args, env, proc, written, warnings>>

\* the files a tree holds, as git lists them: in the order of their paths
FileOrder == <<"a.py", "b.py", "c.ts", "d.md">>

\* what the process can find: without a .git directory git is not run, and a
\* git that fails prints no list
EnvPool ==
    {e \in [tree : SUBSET FilePool, git_dir : BOOLEAN, git : GitOutcomes,
            ls_files : {SelectSeq(FileOrder, LAMBDA f : f \in S) : S \in SUBSET FilePool},
            node : BOOLEAN, pydot : BOOLEAN] :
        /\ Range(e.ls_files) \subseteq e.tree
        /\ ~e.git_dir => e.git = "FileNotFoundError"
        /\ e.git # "ok" => e.ls_files = << >>}

DefaultEnv ==
    [tree |-> {}, git_dir |-> FALSE, git |-> "FileNotFoundError", ls_files |-> << >>,
     node |-> TRUE, pydot |-> TRUE]

NoText == [text |-> << >>]

(***************************************************************************)
(* run_parallel_parsing.                                                   *)
(***************************************************************************)
DistinctSeqs(S, n) ==
    {s \in SeqsUpTo(S, n) : \A i, j \in 1..Len(s) : i # j => s[i] # s[j]}

Init ==
    /\ file_paths \in DistinctSeqs(FilePool, MaxFiles)
    /\ outcome \in [FilePool -> UNION {OutcomesOf(f) : f \in FilePool}]
    /\ \A f \in FilePool :
          /\ outcome[f] \in OutcomesOf(f)
          /\ f \notin Range(file_paths) => outcome[f] = "ok"
    /\ next_task = 1
    /\ running = {}
    /\ outqueue = {}
    /\ collected = {}
    /\ all_nodes = << >>
    /\ all_edges = << >>
    /\ pc = "parsing"
    /\ graph = EmptyGraph
    /\ layers = NoResult
    /\ json_out = NoText
    /\ dot_out = NoText
    /\ handed = [f \in FilePool |-> 0]
    /\ args = DefaultArgs
    /\ env = DefaultEnv
    /\ proc = Running
    /\ written = {}
    /\ warnings = {}

\* an idle worker of the pool takes the next task
Dispatch ==
    /\ pc = "parsing"
    /\ next_task <= Len(file_paths)
    /\ Cardinality(running) < MaxWorkers
    /\ running' = running \cup {file_paths[next_task]}
    /\ handed' = [handed EXCEPT ![file_paths[next_task]] = @ + 1]
    /\ next_task' = next_task + 1
    /\ UNCHANGED <<file_paths, outcome, outqueue, collected, all_nodes, all_edges, pc,
                   graph, layers, json_out, dot_out, cli_vars>>

\* a worker ends its call of _parse_file_worker and queues the result
WorkerReturn(f) ==
    /\ pc = "parsing"
    /\ f \in running
    /\ running' = running \ {f}
    /\ outqueue' = outqueue \cup {[file |-> f, result |-> ParseFileWorker(f, outcome[f])]}
    /\ UNCHANGED <<file_paths, outcome, next_task, collected, all_nodes, all_edges, pc,
                   graph, layers, json_out, dot_out, handed, cli_vars>>

\* the parent's loop over imap_unordered takes one result: an exception of the
\* worker is raised again in the parent, which leaves the with block (the pool
\* is terminated); a batch is appended to all_nodes and all_edges
Collect(r) ==
    /\ pc = "parsing"
    /\ r \in outqueue
    /\ collected' = collected \cup {r.file}
    /\ IF r.result.raised
       THEN /\ pc' = "raised"
            /\ running' = {}
            /\ outqueue' = {}
            /\ UNCHANGED <<all_nodes, all_edges>>
       ELSE /\ all_nodes' = all_nodes \o r.result.nodes
            /\ all_edges' = all_edges \o r.result.edges
            /\ outqueue' = outqueue \ {r}
            /\ UNCHANGED <<pc, running>>
    /\ UNCHANGED <<file_paths, outcome, next_task, graph, layers, json_out, dot_out,
                   handed, cli_vars>>

\* a loop that ends once no result is waiting in the queue
PoolExitEarly ==
    /\ pc = "parsing"
    /\ outqueue = {}
    /\ pc' = "aggregated"
    /\ UNCHANGED <<file_paths, outcome, next_task, running, outqueue, collected,
                   all_nodes, all_edges, graph, layers, json_out, dot_out, handed,
                   cli_vars>>

\* the loop ends once every task's result was taken; the lists are returned
PoolExit ==
    /\ pc = "parsing"
    /\ collected = Range(file_paths)
    /\ pc' = "aggregated"
    /\ UNCHANGED <<file_paths, outcome, next_task, running, outqueue, collected,
                   all_nodes, all_edges, graph, layers, json_out, dot_out, handed,
                   cli_vars>>

(***************************************************************************)
(* GraphBuilder().build(all_nodes, all_edges), and what is done with the   *)
(* graph.                                                                  *)
(***************************************************************************)
BuildGraph ==
    /\ pc = "aggregated"
    /\ graph' = Build(all_nodes, all_edges)
    /\ pc' = "built"
    /\ UNCHANGED <<orch_vars, all_nodes, all_edges, layers, json_out, dot_out, cli_vars>>

ShowLayers ==
    /\ pc = "built"
    /\ layers' = GetAnalysisLayers(graph)
    /\ pc' = "layered"
    /\ UNCHANGED <<orch_vars, all_nodes, all_edges, graph, json_out, dot_out, cli_vars>>

SerializeJson ==
    /\ pc = "built"
    /\ json_out' = JsonSerialize(graph)
    /\ pc' = "json"
    /\ UNCHANGED <<orch_vars, all_nodes, all_edges, graph, layers, dot_out, cli_vars>>

SerializeDot ==
    /\ pc = "built"
    /\ LET r == DotSerialize(graph)
       IN /\ dot_out' = [text |-> r.text]
          /\ graph' = r.graph
    /\ pc' = "dot"
    /\ UNCHANGED <<orch_vars, all_nodes, all_edges, layers, json_out, cli_vars>>

Next ==
    \/ Dispatch
    \/ \E f \in FilePool : WorkerReturn(f)
    \/ \E r \in outqueue : Collect(r)
    \/ PoolExit
    \/ BuildGraph

Spec == Init /\ [][Next]_vars

\* the pool's workers are processes of their own and the parent blocks on the
\* next result only: a worker that can take a task or end its call does, and
\* the parent takes a result that waits and goes on once the loop has ended
Fairness ==
    /\ WF_vars(Dispatch)
    /\ WF_vars(\E f \in FilePool : WorkerReturn(f))
    /\ WF_vars(\E r \in outqueue : Collect(r))
    /\ WF_vars(PoolExit)
    \* WF_vars(BuildGraph), its ENABLED <<BuildGraph>>_vars written out
    /\ []<>(pc # "aggregated") \/ []<><<BuildGraph>>_vars

SpecLive == Spec /\ Fairness

(***************************************************************************)
(* cli.py: main, from the command line to the exit of the process, with    *)
(* generate_graph in between and a KeyboardInterrupt at any point of it.   *)
(* The output paths can be written.                                        *)
(***************************************************************************)
\* a serialize that returns an empty text when pydot is missing
DotSerializerSerializeQuiet(G, pydot) ==
    IF pydot THEN [raised |-> "", text |-> DotSerialize(G).text]
    ELSE [raised |-> "", text |-> << >>]

\* DotSerializer.serialize, the import of pydot included
DotSerializerSerialize(G, pydot) ==
    IF pydot THEN [raised |-> "", text |-> DotSerialize(G).text]
    ELSE [raised |-> "ImportError", text |-> << >>]

InitCli ==
    /\ args \in ArgsPool
    /\ env \in EnvPool
    /\ file_paths = << >>
    /\ outcome = [f \in FilePool |->
                     IF Suffix[f] \in TS_JS_EXTENSIONS /\ ~env.node
                     THEN "FileNotFoundError" ELSE "ok"]
    /\ next_task = 1
    /\ running = {}
    /\ outqueue = {}
    /\ collected = {}
    /\ all_nodes = << >>
    /\ all_edges = << >>
    /\ pc = "main"
    /\ graph = EmptyGraph
    /\ layers = NoResult
    /\ json_out = NoText
    /\ dot_out = NoText
    /\ handed = [f \in FilePool |-> 0]
    /\ proc = Running
    /\ written = {}
    /\ warnings = {}

\* a main that validates nothing
MainParseArgsUnchecked ==
    /\ pc = "main"
    /\ pc' = "discovering"
    /\ UNCHANGED <<orch_vars, all_nodes, all_edges, graph, layers, json_out, dot_out,
                   args, env, proc, written, warnings>>

\* main up to the call of generate_graph: parser.error ends the process
MainParseArgs ==
    /\ pc = "main"
    /\ IF UsageError(args) # ""
       THEN /\ proc' = Exited(2, UsageError(args))
            /\ pc' = "exited"
       ELSE /\ pc' = "discovering"
            /\ UNCHANGED proc
    /\ UNCHANGED <<orch_vars, all_nodes, all_edges, graph, layers, json_out, dot_out,
                   args, env, written, warnings>>

\* generate_graph: file_paths = list(walker.walk()); an exception of the walk
\* is caught nowhere and ends the process
Discover ==
    /\ pc = "discovering"
    /\ LET w == Walk(env)
       IN IF w.raised # ""
          THEN /\ proc' = Exited(1, w.raised)
               /\ pc' = "exited"
               /\ UNCHANGED file_paths
          ELSE /\ file_paths' \in w.walks
               /\ pc' = "checking"
               /\ UNCHANGED proc
    /\ UNCHANGED <<outcome, next_task, running, outqueue, collected, handed, all_nodes,
                   all_edges, graph, layers, json_out, dot_out, args, env, written,
                   warnings>>

\* generate_graph: the check of node; its RuntimeError is caught nowhere
CheckNode ==
    /\ pc = "checking"
    /\ LET raised == NodeCheck(file_paths, env.node)
       IN IF raised # ""
          THEN /\ proc' = Exited(1, raised)
               /\ pc' = "exited"
          ELSE /\ pc' = "parsing"
               /\ UNCHANGED proc
    /\ UNCHANGED <<orch_vars, all_nodes, all_edges, graph, layers, json_out, dot_out,
                   args, env, written, warnings>>

\* a handler that leaves the pool's workers as they are
KeyboardInterruptPoolLeft ==
    /\ pc \in {"discovering", "checking", "parsing", "aggregated"}
    /\ proc' = Exited(1, "KeyboardInterrupt")
    /\ pc' = "exited"
    /\ UNCHANGED <<orch_vars, all_nodes, all_edges, graph, layers, json_out, dot_out,
                   args, env, written, warnings>>

\* KeyboardInterrupt is raised in the parent while generate_graph runs: it
\* leaves the with block of the pool, which terminates the workers, and main
\* catches it and calls sys.exit(1)
KeyboardInterrupt ==
    /\ pc \in {"discovering", "checking", "parsing", "aggregated"}
    /\ running' = {}
    /\ outqueue' = {}
    /\ proc' = Exited(1, "KeyboardInterrupt")
    /\ pc' = "exited"
    /\ UNCHANGED <<file_paths, outcome, next_task, collected, handed, all_nodes,
                   all_edges, graph, layers, json_out, dot_out, args, env, written,
                   warnings>>

\* main with --show-layers: the layers are printed, or parser.error
MainShowLayers ==
    /\ pc = "built"
    /\ args.show_layers
    /\ layers' = GetAnalysisLayers(graph)
    /\ proc' = CASE layers'.kind = "layers" -> Exited(0, "")
                 [] layers'.kind = "CircularDependencyError" -> Exited(2, layers'.kind)
                 [] OTHER -> Exited(1, layers'.kind)
    /\ pc' = "exited"
    /\ UNCHANGED <<orch_vars, all_nodes, all_edges, graph, json_out, dot_out, args, env,
                   written, warnings>>

\* main with --output: the one format asked for; an ImportError of the DOT
\* serializer is a parser.error
MainOutputFile ==
    /\ pc = "built"
    /\ ~args.show_layers
    /\ args.output_file
    /\ IF args.format = "json"
       THEN /\ json_out' = JsonSerialize(graph)
            /\ written' = written \cup {OutputFile}
            /\ proc' = Exited(0, "")
            /\ UNCHANGED dot_out
       ELSE /\ UNCHANGED json_out
            /\ LET r == DotSerializerSerialize(graph, env.pydot)
               IN IF r.raised # ""
                  THEN /\ proc' = Exited(2, r.raised)
                       /\ UNCHANGED <<dot_out, written>>
                  ELSE /\ dot_out' = [text |-> r.text]
                       /\ written' = written \cup {OutputFile}
                       /\ proc' = Exited(0, "")
    /\ pc' = "exited"
    /\ UNCHANGED <<orch_vars, all_nodes, all_edges, graph, layers, args, env, warnings>>

\* main with neither: both files under output/; an ImportError of the DOT
\* serializer is a warning
MainDefaultOutputs ==
    /\ pc = "built"
    /\ ~args.show_layers
    /\ ~args.output_file
    /\ json_out' = JsonSerialize(graph)
    /\ LET r == DotSerializerSerialize(graph, env.pydot)
       IN IF r.raised # ""
          THEN /\ warnings' = warnings \cup {"Could not generate DOT format"}
               /\ written' = written \cup {JsonPath}
               /\ UNCHANGED dot_out
          ELSE /\ dot_out' = [text |-> r.text]
               /\ written' = written \cup {JsonPath, DotPath}
               /\ UNCHANGED warnings
    /\ proc' = Exited(0, "")
    /\ pc' = "exited"
    /\ UNCHANGED <<orch_vars, all_nodes, all_edges, graph, layers, args, env>>

NextCli ==
    \/ MainParseArgs
    \/ Discover
    \/ CheckNode
    \/ Dispatch
    \/ \E f \in FilePool : WorkerReturn(f)
    \/ \E r \in outqueue : Collect(r)
    \/ PoolExit
    \/ BuildGraph
    \/ KeyboardInterrupt
    \/ MainShowLayers
    \/ MainOutputFile
    \/ MainDefaultOutputs

SpecCli == InitCli /\ [][NextCli]_vars

(***************************************************************************)
(* The graph operations on every short list of facts: SpecGraph over facts *)
(* with competing declarations and edge types, SpecLayers over the import  *)
(* graphs of three files.                                                  *)
(***************************************************************************)
IdFile == FileId("a.py")

IdFoo == SymbolId("a.py", "a", "Foo")

IdBar == SymbolId("b.py", "b", "Bar")

GraphNodeFacts ==
    {Node(IdFile, "file", <<"a">>, 0),
     Node(IdFoo, "class", <<"Foo">>, 1),
     Node(IdFoo, "function", <<"ns", ":", "Foo">>, 5)}

GraphEdgeFacts ==
    {Edge(s, t, ty) : s \in {IdFoo, IdBar}, t \in {IdFoo, IdBar},
                      ty \in {"imports", "calls"}}

LayerIds == {FileId("a.py"), FileId("b.py"), FileId("c.ts")}

LayerNodeFacts == {Node(id, "file", id, 0) : id \in LayerIds}

LayerEdgeFacts == {Edge(s, t, "imports") : s \in LayerIds, t \in LayerIds}

InitFacts(nodes, edges) ==
    /\ file_paths = << >>
    /\ outcome = [f \in FilePool |-> "ok"]
    /\ next_task = 1
    /\ running = {}
    /\ outqueue = {}
    /\ collected = {}
    /\ all_nodes \in nodes
    /\ all_edges \in edges
    /\ pc = "aggregated"
    /\ graph = EmptyGraph
    /\ layers = NoResult
    /\ json_out = NoText
    /\ dot_out = NoText
    /\ handed = [f \in FilePool |-> 0]
    /\ args = DefaultArgs
    /\ env = DefaultEnv
    /\ proc = Running
    /\ written = {}
    /\ warnings = {}

InitGraph ==
    InitFacts(SeqsUpTo(GraphNodeFacts, MaxNodeFacts), SeqsUpTo(GraphEdgeFacts, MaxEdgeFacts))

InitLayers ==
    InitFacts(SeqsUpTo(LayerNodeFacts, MaxLayerNodeFacts),
              SeqsUpTo(LayerEdgeFacts, MaxLayerEdgeFacts))

NextGraph ==
    \/ BuildGraph
    \/ ShowLayers
    \/ SerializeJson
    \/ SerializeDot

SpecGraph == InitGraph /\ [][NextGraph]_vars

NextLayers ==
    \/ BuildGraph
    \/ ShowLayers

SpecLayers == InitLayers /\ [][NextLayers]_vars

(***************************************************************************)
(* Graph notions the properties are stated with, defined on the edge       *)
(* relation alone.                                                         *)
(***************************************************************************)
Built == pc \in {"built", "layered", "json", "dot"}

Preds(G, n) == {u \in Nodes(G) : HasEdge(G, u, n)}

RECURSIVE Closure(_, _)
Closure(G, S) ==
    LET T == S \cup {v \in Nodes(G) : \E u \in S : HasEdge(G, u, v)}
    IN IF T = S THEN S ELSE Closure(G, T)

Descendants(G, n) == Closure(G, {v \in Nodes(G) : HasEdge(G, n, v)})

HasCycle(G) == \E n \in Nodes(G) : n \in Descendants(G, n)

MaxOf(S) == IF S = {} THEN 0 ELSE CHOOSE x \in S : \A y \in S : y <= x

\* the number of edges of the longest path that ends in n (G acyclic)
RECURSIVE Depth(_, _)
Depth(G, n) ==
    IF Preds(G, n) = {} THEN 0 ELSE 1 + MaxOf({Depth(G, u) : u \in Preds(G, n)})

\* the length of the longest path, 0 for a graph with no edge or no node
\* (networkx.dag_longest_path_length)
LongestPathLength(G) == MaxOf({Depth(G, n) : n \in Nodes(G)})

RECURSIVE Flatten(_, _)
Flatten(ls, i) == IF i > Len(ls) THEN << >> ELSE ls[i] \o Flatten(ls, i + 1)

LayerOf(ls, n) == CHOOSE i \in 1..Len(ls) : Contains(ls[i], n)

LayeredBefore(ls, k) == UNION {Range(ls[j]) : j \in 1..(k - 1)}

\* the simple cycles of G, each as the sequence of its nodes from one of them
SimpleCycles(G) ==
    {p \in DistinctSeqs(Nodes(G), Cardinality(Nodes(G))) :
        /\ Len(p) >= 1
        /\ \A i \in 1..(Len(p) - 1) : HasEdge(G, p[i], p[i + 1])
        /\ HasEdge(G, p[Len(p)], p[1])}

PathEdges(path) == {<<path[i], path[i + 1]>> : i \in 1..(Len(path) - 1)}

TypedEdges(G) == {<<e[1], e[2], DictGet(G.edata[e], "type", "")>> : e \in Edges(G)}

Reorderings(s) ==
    {[i \in 1..Len(s) |-> s[f[i]]] :
        f \in {g \in [1..Len(s) -> 1..Len(s)] : \A i, j \in 1..Len(s) : i # j => g[i] # g[j]}}

(***************************************************************************)
(* C1.  For an acyclic graph get_analysis_layers returns layers in which   *)
(* every node appears exactly once, and every edge goes from a layer to a  *)
(* strictly later one.                                                     *)
(***************************************************************************)
C1_LayersPartitionAndOrder ==
    (pc = "layered" /\ ~HasCycle(graph)) =>
        /\ layers.kind = "layers"
        /\ Len(Flatten(layers.layers, 1)) = Cardinality(Nodes(graph))
        /\ Range(Flatten(layers.layers, 1)) = Nodes(graph)
        /\ \A e \in Edges(graph) :
              LayerOf(layers.layers, e[1]) < LayerOf(layers.layers, e[2])

C1_Witness ==
    /\ pc = "layered"
    /\ ~HasCycle(graph)
    /\ Cardinality(Nodes(graph)) = 3
    /\ Cardinality(Edges(graph)) = 3
    /\ Len(layers.layers) = 3

(***************************************************************************)
(* C2.  The layers of an acyclic graph are its topological generations:    *)
(* the first layer holds the nodes with no incoming edge, each later layer *)
(* the nodes not yet layered whose incoming edges all start in earlier     *)
(* layers.  As claimed, the number of layers is the longest path length    *)
(* plus 1 for every acyclic graph; as amended, for every acyclic graph     *)
(* with at least one node, the graph with no node having no layer.         *)
(***************************************************************************)
IsGenerations(G, ls) ==
    \A k \in 1..Len(ls) :
        Range(ls[k]) = {n \in Nodes(G) \ LayeredBefore(ls, k) :
                           Preds(G, n) \subseteq LayeredBefore(ls, k)}

C2_GenerationsAsClaimed ==
    (pc = "layered" /\ ~HasCycle(graph)) =>
        /\ layers.kind = "layers"
        /\ IsGenerations(graph, layers.layers)
        /\ Len(layers.layers) = LongestPathLength(graph) + 1

C2_Generations ==
    (pc = "layered" /\ ~HasCycle(graph)) =>
        /\ layers.kind = "layers"
        /\ IsGenerations(graph, layers.layers)
        /\ Nodes(graph) # {} => Len(layers.layers) = LongestPathLength(graph) + 1
        /\ Nodes(graph) = {} => Len(layers.layers) = 0

C2_Witness ==
    /\ pc = "layered"
    /\ ~HasCycle(graph)
    /\ LongestPathLength(graph) = 2
    /\ \E n \in Nodes(graph) : Cardinality(Preds(graph, n)) = 2
    /\ Len(layers.layers) = 3

(***************************************************************************)
(* C3.  For a graph with a cycle (a self-loop included) get_analysis_layers*)
(* returns no layer and raises CircularDependencyError; the path of its    *)
(* message is a cycle of the graph, closed: consecutive ids are edges and  *)
(* the last id is the first.  When the graph has one cycle only, the path  *)
(* is that cycle.                                                          *)
(***************************************************************************)
C3_CycleReported ==
    (pc = "layered" /\ HasCycle(graph)) =>
        /\ layers.kind = "CircularDependencyError"
        /\ layers.layers = << >>
        /\ Len(layers.cycle_path) >= 2
        /\ layers.cycle_path[Len(layers.cycle_path)] = layers.cycle_path[1]
        /\ \A i \in 1..(Len(layers.cycle_path) - 1) :
              HasEdge(graph, layers.cycle_path[i], layers.cycle_path[i + 1])
        /\ \E p \in SimpleCycles(graph) : layers.cycle_path = Append(p, p[1])
        /\ \A p \in SimpleCycles(graph) :
              (\A q \in SimpleCycles(graph) : Range(q) = Range(p) /\ Len(q) = Len(p))
                  => PathEdges(layers.cycle_path) = PathEdges(Append(p, p[1]))

C3_Witness ==
    /\ pc = "layered"
    /\ layers.kind = "CircularDependencyError"
    /\ Len(layers.cycle_path) = 4
    /\ Cardinality(Edges(graph)) = 3

(***************************************************************************)
(* C4.  The cycle that is reported is the same for every order in which    *)
(* the same node facts and the same edge facts are aggregated (stated on   *)
(* the edges of the reported cycle, which the reported path determines).   *)
(***************************************************************************)
C4_CycleOrderIndependent ==
    (pc = "layered" /\ layers.kind = "CircularDependencyError") =>
        \A ns \in Reorderings(all_nodes), es \in Reorderings(all_edges) :
            LET other == GetAnalysisLayers(Build(ns, es))
            IN /\ other.kind = "CircularDependencyError"
               /\ PathEdges(other.cycle_path) = PathEdges(layers.cycle_path)

(***************************************************************************)
(* C5.  A node id declared by several node facts is one node of the graph, *)
(* and its attributes are those of the last of these facts, all of them.   *)
(***************************************************************************)
DeclaredIds == {all_nodes[i].id : i \in 1..Len(all_nodes)}

LastDeclaration(id) ==
    all_nodes[MaxOf({i \in 1..Len(all_nodes) : all_nodes[i].id = id})]

C5_LastDeclarationWins ==
    Built =>
        \A id \in DeclaredIds :
            /\ Cardinality({i \in 1..Len(graph.order) : graph.order[i] = id}) = 1
            /\ graph.attrs[id] = ModelDump(LastDeclaration(id))
            /\ graph.attrs[id].type = LastDeclaration(id).type
            /\ graph.attrs[id].name = LastDeclaration(id).name
            /\ graph.attrs[id].metadata = LastDeclaration(id).metadata

C5_Witness ==
    /\ Built
    /\ Len(all_nodes) = 2
    /\ all_nodes[1].id = all_nodes[2].id
    /\ all_nodes[1].type # all_nodes[2].type
    /\ all_nodes[1].name # all_nodes[2].name
    /\ graph.attrs[all_nodes[1].id].name = all_nodes[2].name

(***************************************************************************)
(* C6.  Every edge fact is an edge of the graph; an endpoint that no node  *)
(* fact declares is a node with no attribute; and the declared nodes have  *)
(* the attributes they had before the edges were inserted.                 *)
(***************************************************************************)
C6_EdgesAndPlaceholders ==
    Built =>
        /\ \A i \in 1..Len(all_edges) :
              /\ HasEdge(graph, all_edges[i].source, all_edges[i].target)
              /\ \A x \in {all_edges[i].source, all_edges[i].target} \ DeclaredIds :
                    /\ Cardinality({j \in 1..Len(graph.order) : graph.order[j] = x}) = 1
                    /\ graph.attrs[x] = EmptyDict
        /\ \A id \in DeclaredIds :
              /\ id \in Nodes(graph)
              /\ graph.attrs[id] = AddNodes(EmptyGraph, all_nodes, 1).attrs[id]

C6_Witness ==
    /\ Built
    /\ \E i \in 1..Len(all_edges) :
          /\ all_edges[i].source \in DeclaredIds
          /\ all_edges[i].target \notin DeclaredIds
          /\ graph.attrs[all_edges[i].target] = EmptyDict
          /\ graph.attrs[all_edges[i].source] # EmptyDict

(***************************************************************************)
(* C7.  For every edge fact (source, target, type) the graph has an edge   *)
(* with that source, target and type, also when two facts join the same    *)
(* pair of ids with different types.                                       *)
(***************************************************************************)
C7_TypedEdgesRetained ==
    Built =>
        \A i \in 1..Len(all_edges) :
            <<all_edges[i].source, all_edges[i].target, all_edges[i].type>>
                \in TypedEdges(graph)

(***************************************************************************)
(* C8.  Decoding the JSON document gives a graph with the same node ids    *)
(* and the same edge triples (source, target, type).  As claimed, each     *)
(* node has the same attributes; as amended, the same attributes but the   *)
(* "id" entry of a declared node's attributes, which the decoded graph     *)
(* holds as the node's key only.                                           *)
(***************************************************************************)
Decoded == NodeLinkGraph(JsonLoads(json_out))

C8_RoundTripAsClaimed ==
    pc = "json" =>
        /\ Nodes(Decoded) = Nodes(graph)
        /\ \A n \in Nodes(graph) : Decoded.attrs[n] = graph.attrs[n]
        /\ TypedEdges(Decoded) = TypedEdges(graph)

C8_RoundTrip ==
    pc = "json" =>
        /\ Nodes(Decoded) = Nodes(graph)
        /\ Len(Decoded.order) = Len(graph.order)
        /\ \A n \in Nodes(graph) : Decoded.attrs[n] = DictDel(graph.attrs[n], "id")
        /\ TypedEdges(Decoded) = TypedEdges(graph)

C8_Witness ==
    /\ pc = "json"
    /\ \E e \in Edges(graph) :
          /\ graph.attrs[e[1]] # EmptyDict
          /\ graph.attrs[e[2]] = EmptyDict
          /\ <<e[1], e[2], "calls">> \in TypedEdges(Decoded)
    /\ Cardinality(Edges(graph)) = 2

(***************************************************************************)
(* C9.  The DOT output has one entry per node; the label of an entry is    *)
(* the part after the last identity-path separator of the node's name, or  *)
(* of its id for a node without a name; no entry has a name attribute;     *)
(* every edge entry has the edge's type; the graph passed in is unchanged. *)
(***************************************************************************)
IdentityPathSeparators == {"__", ".", ":"}

SimplifiedLabel(G, n) ==
    AfterLast(DictGet(G.attrs[n], "name", n), IdentityPathSeparators)

C9_DotLabels ==
    pc = "dot" =>
        /\ Len(dot_out.text.nodes) = Cardinality(Nodes(graph))
        /\ \A n \in Nodes(graph) :
              \E i \in 1..Len(dot_out.text.nodes) :
                  /\ dot_out.text.nodes[i].name = n
                  /\ "label" \in DOMAIN dot_out.text.nodes[i].attrs
                  /\ dot_out.text.nodes[i].attrs["label"] = SimplifiedLabel(graph, n)
                  /\ "name" \notin DOMAIN dot_out.text.nodes[i].attrs
        /\ \A i \in 1..Len(dot_out.text.edges) :
              LET e == dot_out.text.edges[i]
              IN e.attrs["type"] = graph.edata[<<e.source, e.target>>].type
        /\ graph = Build(all_nodes, all_edges)

(***************************************************************************)
(* C10.  The worker call of a file whose analyzer fails, or that has no    *)
(* analyzer, returns the empty batch; nothing is raised in the parent; and *)
(* the lists that run_parallel_parsing returns hold the facts of every     *)
(* other file.                                                             *)
(***************************************************************************)
Analyzed(f) == ParserMapping(Suffix[f]) # "None" /\ outcome[f] = "ok"

RECURSIVE SumLen(_, _)
SumLen(fs, field) ==
    IF fs = {} THEN 0
    ELSE LET f == CHOOSE x \in fs : TRUE
         IN Len(FileBatch(f)[field]) + SumLen(fs \ {f}, field)

C10_FailureIsEmptyBatch ==
    /\ pc # "raised"
    /\ \A r \in outqueue :
          /\ ~r.result.raised
          /\ ~Analyzed(r.file) => r.result.nodes = << >> /\ r.result.edges = << >>
    /\ pc \in {"aggregated", "built"} =>
          /\ \A f \in Range(file_paths) :
                Analyzed(f) =>
                    /\ Range(FileBatch(f).nodes) \subseteq Range(all_nodes)
                    /\ Range(FileBatch(f).edges) \subseteq Range(all_edges)
          /\ Len(all_nodes) = SumLen({f \in Range(file_paths) : Analyzed(f)}, "nodes")
          /\ Len(all_edges) = SumLen({f \in Range(file_paths) : Analyzed(f)}, "edges")

C10_Witness ==
    /\ pc = "aggregated"
    /\ \E f \in Range(file_paths) : outcome[f] = "CalledProcessError"
    /\ \E f \in Range(file_paths) : Suffix[f] = ".md"
    /\ \E f \in Range(file_paths) : Analyzed(f) /\ all_nodes = FileBatch(f).nodes

(***************************************************************************)
(* C11.  build starts only once every file of file_paths was handed to a   *)
(* worker exactly once and the parent has taken the result of every one of *)
(* these calls: no file is ever handed twice, and when the lists are       *)
(* returned or the graph is built no worker runs and no result waits.  If  *)
(* the workers go on, the graph is built in the end.                       *)
(***************************************************************************)
AllCollected ==
    /\ \A f \in FilePool : handed[f] = IF f \in Range(file_paths) THEN 1 ELSE 0
    /\ collected = Range(file_paths)
    /\ running = {}
    /\ outqueue = {}

C11_AssemblyAfterCollection ==
    /\ [](\A f \in FilePool : handed[f] <= 1)
    /\ [](pc \in {"aggregated", "built"} => AllCollected)
    /\ [][graph' # graph => AllCollected]_vars
    /\ (pc = "parsing") ~> (pc = "built")

C11_Witness ==
    /\ pc = "built"
    /\ Len(file_paths) >= 2
    /\ Analyzed(file_paths[1]) /\ Analyzed(file_paths[2])
    /\ LET later == FileBatch(file_paths[2]).nodes
       IN SubSeq(all_nodes, 1, Len(later)) = later

(***************************************************************************)
(* C12.  The lists that run_parallel_parsing returns hold the same nodes   *)
(* and the same edges, each as many times, as the lists aggregated in the  *)
(* order of file_paths, whatever the order in which the workers end; the   *)
(* graph built from them has the same nodes and the same edges with the    *)
(* same types as the graph built from those lists, and the same node       *)
(* attributes but for the ids that more than one batch declares.           *)
(***************************************************************************)
BagOf(s) == [x \in Range(s) |-> Cardinality({i \in 1..Len(s) : s[i] = x})]

\* the lists aggregated in the order of file_paths
RECURSIVE InFileOrder(_, _)
InFileOrder(i, field) ==
    IF i > Len(file_paths) THEN << >>
    ELSE ParseFileWorker(file_paths[i], outcome[file_paths[i]])[field]
             \o InFileOrder(i + 1, field)

DeclaringFiles(id) ==
    {f \in Range(file_paths) :
        \E k \in 1..Len(ParseFileWorker(f, outcome[f]).nodes) :
            ParseFileWorker(f, outcome[f]).nodes[k].id = id}

C12_CompletionOrderIndependent ==
    /\ pc \in {"aggregated", "built"} =>
          /\ BagOf(all_nodes) = BagOf(InFileOrder(1, "nodes"))
          /\ BagOf(all_edges) = BagOf(InFileOrder(1, "edges"))
    /\ pc = "built" =>
          LET H == Build(InFileOrder(1, "nodes"), InFileOrder(1, "edges"))
          IN /\ Nodes(graph) = Nodes(H)
             /\ \A n \in Nodes(graph) :
                   Cardinality(DeclaringFiles(n)) <= 1 => graph.attrs[n] = H.attrs[n]
             /\ Edges(graph) = Edges(H)
             /\ TypedEdges(graph) = TypedEdges(H)

(***************************************************************************)
(* C13.  When a discovered file has a TS/JS suffix and node is missing,    *)
(* the run ends with an error at the check: no file was handed to a        *)
(* worker, no result was taken, no graph is built and no file is written.  *)
(* When no discovered file has such a suffix, no RuntimeError of the check *)
(* ends the run, node missing or not.                                      *)
(***************************************************************************)
HasTsJs == \E i \in 1..Len(file_paths) : Suffix[file_paths[i]] \in {".ts", ".js", ".tsx", ".jsx"}

NothingDispatched ==
    /\ next_task = 1
    /\ running = {}
    /\ outqueue = {}
    /\ collected = {}
    /\ \A f \in FilePool : handed[f] = 0
    /\ all_nodes = << >>
    /\ all_edges = << >>

C13_NodeCheckedBeforeDispatch ==
    /\ (HasTsJs /\ ~env.node) =>
          /\ pc \in {"checking", "exited"}
          /\ NothingDispatched
          /\ graph = EmptyGraph
          /\ written = {}
          /\ pc = "exited" =>
                /\ proc.done
                /\ proc.status # 0
                /\ proc.error \in {"RuntimeError", "KeyboardInterrupt"}
    /\ ~HasTsJs => proc.error # "RuntimeError"
    /\ (~HasTsJs /\ ~env.node /\ pc = "checking") => ENABLED CheckNode

C13_Witness ==
    /\ pc = "exited"
    /\ proc.error = "RuntimeError"
    /\ \E i \in 1..Len(file_paths) : Suffix[file_paths[i]] = ".py"
    /\ \E i \in 1..Len(file_paths) : Suffix[file_paths[i]] = ".ts"

(***************************************************************************)
(* C14.  Once a KeyboardInterrupt was raised while generate_graph ran,     *)
(* whatever the workers had done by then: the process has ended with a     *)
(* status that is not zero, no worker of the pool runs, no result waits,   *)
(* and no output file was written.                                         *)
(***************************************************************************)
C14_InterruptStopsRun ==
    proc.error = "KeyboardInterrupt" =>
        /\ pc = "exited"
        /\ proc.done
        /\ proc.status # 0
        /\ running = {}
        /\ outqueue = {}
        /\ written = {}
        /\ json_out = NoText
        /\ dot_out = NoText

C14_Witness ==
    /\ proc.error = "KeyboardInterrupt"
    /\ collected # {}
    /\ next_task > Len(file_paths)
    /\ collected # Range(file_paths)

(***************************************************************************)
(* C15.  With --show-layers and --output together, with a root that does   *)
(* not exist or with a root that is no directory, the process ends with a  *)
(* status that is not zero; no file was discovered, none was handed to a   *)
(* worker, no graph was built and no file was written.                     *)
(***************************************************************************)
IsUsageError == (args.show_layers /\ args.output_file) \/ args.root_path # "dir"

C15_UsageErrorsExitFirst ==
    IsUsageError =>
        /\ pc \in {"main", "exited"}
        /\ file_paths = << >>
        /\ NothingDispatched
        /\ graph = EmptyGraph
        /\ layers = NoResult
        /\ written = {}
        /\ pc = "main" => ENABLED MainParseArgs
        /\ pc = "exited" => proc.done /\ proc.status # 0

C15_Witness ==
    /\ pc = "exited"
    /\ args.root_path = "file"
    /\ ~args.show_layers
    /\ env.tree # {}

(***************************************************************************)
(* C16.  With pydot missing, a run that reaches the output: with --output  *)
(* and --format dot the process ends with a status that is not zero and    *)
(* no file written; with no --output it prints a warning, writes the JSON  *)
(* file and no DOT file, and ends with status zero.                        *)
(***************************************************************************)
ReachedOutput ==
    /\ proc.done
    /\ ~IsUsageError
    /\ ~args.show_layers
    /\ proc.error \notin {"KeyboardInterrupt", "RuntimeError", "PermissionError"}

C16_MissingPydot ==
    (~env.pydot /\ ReachedOutput) =>
        /\ (args.output_file /\ args.format = "dot") =>
              /\ proc.status # 0
              /\ written = {}
        /\ ~args.output_file =>
              /\ proc.status = 0
              /\ warnings # {}
              /\ written = {JsonPath}
              /\ json_out = JsonSerialize(graph)

C16_Witness ==
    /\ ~env.pydot
    /\ ReachedOutput
    /\ ~args.output_file
    /\ Edges(graph) # {}

(***************************************************************************)
(* C17.  No error of the git query ends the run.  When there is no .git    *)
(* directory or the query fails, the discovered files are those of the     *)
(* tree with a supported extension and no part of their relative path      *)
(* matching an ignore pattern.  With either walker every discovered file   *)
(* has a supported extension and is discovered once.                       *)
(***************************************************************************)
Discovered == pc \in {"checking", "parsing", "aggregated", "built"}

FallbackFiles ==
    {f \in env.tree :
        /\ Suffix[f] \in {".py", ".js", ".ts", ".jsx", ".tsx"}
        /\ \A j \in 1..Len(RelativeParts(f)) :
              \A k \in 1..Len(DEFAULT_IGNORE_PATTERNS) :
                  ~FnMatch(RelativeParts(f)[j], DEFAULT_IGNORE_PATTERNS[k])}

C17_DiscoveryFallsBack ==
    /\ proc.error \notin {"CalledProcessError", "FileNotFoundError", "PermissionError"}
    /\ (pc = "discovering" /\ (~env.git_dir \/ env.git # "ok")) =>
          \A s \in FileSystemWalkerWalk(env.tree) :
              ENABLED (Discover /\ file_paths' = s /\ pc' = "checking")
    /\ Discovered =>
          /\ (~env.git_dir \/ env.git # "ok") => Range(file_paths) = FallbackFiles
          /\ \A i \in 1..Len(file_paths) :
                Suffix[file_paths[i]] \in {".py", ".js", ".ts", ".jsx", ".tsx"}
          /\ \A i, k \in 1..Len(file_paths) : i # k => file_paths[i] # file_paths[k]

=============================================================================
